---- MODULE Spec2Model ----
(***************************************************************************)
(* VisionOcrModel (docling/models/vision_ocr_model.py): the generator      *)
(* __call__ that walks a lazy page batch, sends every non-degenerate OCR   *)
(* rect of a page to the remote recogniser through a rate-limited session, *)
(* maps the reply's blocks to page-space cells and merges them into the    *)
(* page.                                                                   *)
(*                                                                         *)
(* Numbers.  Python's `/` is true division; a quotient is kept here as an  *)
(* exact fraction [n |-> numerator, d |-> denominator] (d > 0), so that    *)
(* x/3 is not rounded.  Floating-point rounding is not modelled.           *)
(* A JSON number of a reply is such a fraction too (300 is 300/1, 300.5 is *)
(* 601/2); int() truncates it toward zero.                                 *)
(***************************************************************************)
EXTENDS Integers, Sequences, FiniteSets, TLC

VARIABLES
    enabled,        \* self.enabled
    pc,             \* position of the generator __call__
    pulled,         \* number of pages taken from page_batch so far
    page,           \* the loop variable `page`: the page object last pulled
    cells0,         \* history: page.cells as it was when the page was pulled
    ocr_rects,      \* local ocr_rects
    ri,             \* how many entries of ocr_rects the inner loop has consumed
    all_ocr_cells,  \* local all_ocr_cells
    calls,          \* history: the transport calls made for the current page
    fetches,        \* history: get_ocr_rects calls for the current page
    rasters,        \* history: get_page_image calls for the current page
    merges,         \* history: post_process_cells calls for the current page
    out,            \* history: ids of the pages yielded, in order
    error,          \* the exception that left the generator, if any
    limiterOf,      \* instance -> the Limiter object its limiter_session wraps
    bucket,         \* limiter -> ages of the requests it holds in its window
    waiting,        \* instance -> its flow is inside limiter_session.post, not yet admitted
    sent            \* history: instance -> ages of its requests that reached the service

vars == <<enabled, pc, pulled, page, cells0, ocr_rects, ri, all_ocr_cells, calls,
          fetches, rasters, merges, out, error, limiterOf, bucket, waiting, sent>>

genVars == <<enabled, pc, pulled, page, cells0, ocr_rects, ri, all_ocr_cells, calls,
             fetches, rasters, merges, out, error>>

limVars == <<limiterOf, bucket, waiting, sent>>

----------------------------------------------------------------------------
(* Bounds of the model *)

MaxPages == 2
MaxRects == 2
MaxBlocks == 2

(* the request rate of options.limiter: Quota requests per Window ticks *)
Quota == 1
Window == 2

(* self.scale *)
scale == 3

----------------------------------------------------------------------------
(* Exact fractions *)

Frac(n, d) == [n |-> n, d |-> d]

FracEq(a, b) == a.n * b.d = b.n * a.d

FracLe(a, b) == a.n * b.d <= b.n * a.d

(* int(x): truncation toward zero *)
PyInt(x) == IF x.n >= 0 THEN x.n \div x.d ELSE -((-x.n) \div x.d)

(* (i / k) + o for integers i, k and offset o *)
DivAdd(i, k, o) == Frac(i + o * k, k)

----------------------------------------------------------------------------
(* Input domains *)

ZeroRect == [l |-> 10, t |-> 10, r |-> 10, b |-> 20]

FlatRect == [l |-> 10, t |-> 20, r |-> 30, b |-> 20]

WideRect == [l |-> 100, t |-> 50, r |-> 200, b |-> 100]

Rects == {ZeroRect, FlatRect, WideRect}

RectSeqs == UNION {[1..n -> Rects] : n \in 0..MaxRects}

Backends == {"none", "invalid", "valid"}

Pt(x, y) == [x |-> x, y |-> y]

(* a block's boundingBox.vertices from its first and third vertex *)
Quad(a, c) == <<a, Pt(c.x, a.y), c, Pt(a.x, c.y)>>

Blk(a, c, lines) == [vertices |-> Quad(a, c), lines |-> lines]

(* Blocks a reply can hold: a box inside the image, given clockwise from the
   top-left corner; and the box of a turned text, whose first vertex is not
   the top-left corner, with fractional coordinates, leaving the image on
   the right. *)
Blocks ==
    { Blk(Pt(Frac(0, 1), Frac(0, 1)), Pt(Frac(300, 1), Frac(150, 1)), <<"Hello", "World">>),
      Blk(Pt(Frac(661, 2), Frac(150, 1)), Pt(Frac(-1, 2), Frac(0, 1)), <<"a">>) }

BlockSeqs == UNION {[1..n -> Blocks] : n \in 0..MaxBlocks}

Messages == {"quota exceeded", "bad image"}

(* parsed reply bodies: {result: {textAnnotation: {blocks?}}} or {error: {message}} *)
OkReplies ==
    {[has_error |-> FALSE, message |-> "", has_blocks |-> TRUE, blocks |-> bs] :
        bs \in BlockSeqs}
    \cup {[has_error |-> FALSE, message |-> "", has_blocks |-> FALSE, blocks |-> <<>>]}

ErrorReplies ==
    {[has_error |-> TRUE, message |-> m, has_blocks |-> FALSE, blocks |-> <<>>] :
        m \in Messages}

Replies == OkReplies \cup ErrorReplies

NoError == [type |-> "none", message |-> ""]

NoPage == [id |-> 0, backend |-> "none", cells |-> [base |-> 0, merged |-> <<>>]]

(* a page object as the pipeline hands it over: its cells are those of the backend *)
NewPage(id, backend) ==
    [id |-> id, backend |-> backend, cells |-> [base |-> id, merged |-> <<>>]]

NoReply == [has_error |-> FALSE, message |-> "", has_blocks |-> FALSE, blocks |-> <<>>]

----------------------------------------------------------------------------
(* Collaborators of BaseOcrModel and of the page backend *)

(* self.post_process_cells(ocr_cells, page_cells): the merge, kept as a term *)
post_process_cells(ocr_cells, page_cells) ==
    [base |-> page_cells.base, merged |-> Append(page_cells.merged, ocr_cells)]

(* page._backend.is_valid() *)
is_valid(pg) == pg.backend = "valid"

(* ocr_rect.area() *)
area(rc) == (rc.r - rc.l) * (rc.b - rc.t)

(* BoundingBox.from_tuple(coord, origin=TOPLEFT).  The constructor belongs to
   docling_core; a build of it either keeps the four scalars as given
   (reorder = FALSE) or exchanges l with r when r < l and t with b when b < t
   (reorder = TRUE). *)
from_tuple(coord, reorder) ==
    LET swapx == reorder /\ ~FracLe(coord[1], coord[3])
        swapy == reorder /\ ~FracLe(coord[2], coord[4])
    IN  [l |-> IF swapx THEN coord[3] ELSE coord[1],
         t |-> IF swapy THEN coord[4] ELSE coord[2],
         r |-> IF swapx THEN coord[1] ELSE coord[3],
         b |-> IF swapy THEN coord[2] ELSE coord[4]]

----------------------------------------------------------------------------
(* The mapping of a reply to cells, lines 86-115 *)

RECURSIVE JoinLines(_)
(* "\n".join(line["text"] for line in block["lines"]), as a sequence of pieces *)
JoinLines(lines) ==
    IF Len(lines) = 0 THEN <<>>
    ELSE IF Len(lines) = 1 THEN <<lines[1]>>
    ELSE <<lines[1], "\n">> \o JoinLines(Tail(lines))

(* faulty variant of BlockCoord: the second vertex is taken for the
   bottom-right corner *)
BlockCoord_SecondVertex(block, ocr_rect) ==
    LET vertices == block.vertices
        min_x == PyInt(vertices[1].x)
        min_y == PyInt(vertices[1].y)
        max_x == PyInt(vertices[2].x)
        max_y == PyInt(vertices[2].y)
    IN  << DivAdd(min_x, scale, ocr_rect.l),
           DivAdd(min_y, scale, ocr_rect.t),
           DivAdd(max_x, scale, ocr_rect.l),
           DivAdd(max_y, scale, ocr_rect.t) >>

(* faulty variant of BlockCoord: the division by the scale is missing *)
BlockCoord_Unscaled(block, ocr_rect) ==
    LET vertices == block.vertices
        min_x == PyInt(vertices[1].x)
        min_y == PyInt(vertices[1].y)
        max_x == PyInt(vertices[3].x)
        max_y == PyInt(vertices[3].y)
    IN  << DivAdd(min_x, 1, ocr_rect.l),
           DivAdd(min_y, 1, ocr_rect.t),
           DivAdd(max_x, 1, ocr_rect.l),
           DivAdd(max_y, 1, ocr_rect.t) >>

(* the coord tuple built from vertices[0] and vertices[2] *)
BlockCoord(block, ocr_rect) ==
    LET vertices == block.vertices
        min_x == PyInt(vertices[1].x)
        min_y == PyInt(vertices[1].y)
        max_x == PyInt(vertices[3].x)
        max_y == PyInt(vertices[3].y)
    IN  << DivAdd(min_x, scale, ocr_rect.l),
           DivAdd(min_y, scale, ocr_rect.t),
           DivAdd(max_x, scale, ocr_rect.l),
           DivAdd(max_y, scale, ocr_rect.t) >>

(* the OcrCell of block number ix (counted from 0) *)
MakeCell(ix, block, ocr_rect, reorder) ==
    [id |-> ix,
     text |-> JoinLines(block.lines),
     confidence |-> 1,
     bbox |-> from_tuple(BlockCoord(block, ocr_rect), reorder)]

(* text_annotation.get("blocks", []) *)
GetBlocks(result) == IF result.has_blocks THEN result.blocks ELSE <<>>

(* the list `cells` of one region *)
RegionCells(result, ocr_rect, reorder) ==
    LET blocks == GetBlocks(result)
    IN  [i \in 1..Len(blocks) |-> MakeCell(i - 1, blocks[i], ocr_rect, reorder)]

----------------------------------------------------------------------------
(* The generator __call__, lines 57-126 *)

(* the generator has not started or is suspended at a yield, and the consumer
   asks it for the next page *)
Resumable == pc \in {"start", "yielded"}

Raise(type, message) ==
    /\ error' = [type |-> type, message |-> message]
    /\ pc' = "raised"

(* line 64: the next page is bound to `page`.  The per-page history starts
   again, and the locals of the loop body, which are dead at the top of the
   loop, are cleared. *)
TakePage(pg) ==
    /\ pulled' = pulled + 1
    /\ page' = pg
    /\ cells0' = pg.cells
    /\ ocr_rects' = <<>>
    /\ ri' = 0
    /\ all_ocr_cells' = <<>>
    /\ calls' = <<>>
    /\ fetches' = 0
    /\ rasters' = 0
    /\ merges' = 0

(* faulty variant of PassThrough: the disabled model still runs the merge on
   every page it hands over *)
PassThrough_Merging ==
    /\ Resumable /\ ~enabled
    /\ pulled < MaxPages
    /\ \E b \in Backends :
          LET pg == NewPage(pulled + 1, b)
          IN  /\ pulled' = pulled + 1
              /\ cells0' = pg.cells
              /\ page' = [pg EXCEPT !.cells = post_process_cells(<<>>, pg.cells)]
              /\ out' = Append(out, pg.id)
    /\ merges' = 1
    /\ pc' = "yielded"
    /\ UNCHANGED <<enabled, ocr_rects, ri, all_ocr_cells, calls, fetches, rasters, error>>

(* lines 60-61: yield from page_batch hands the next page over untouched *)
PassThrough ==
    /\ Resumable /\ ~enabled
    /\ pulled < MaxPages
    /\ \E b \in Backends :
          LET pg == NewPage(pulled + 1, b)
          IN  /\ TakePage(pg)
              /\ out' = Append(out, pg.id)
    /\ pc' = "yielded"
    /\ UNCHANGED <<enabled, error>>

(* lines 61-62: page_batch is exhausted, return *)
PassThroughEnd ==
    /\ Resumable /\ ~enabled
    /\ pc' = "done"
    /\ UNCHANGED <<enabled, pulled, page, cells0, ocr_rects, ri, all_ocr_cells,
                   calls, fetches, rasters, merges, out, error>>

(* lines 64-66 with page._backend None: the assert fails, or, where asserts
   are compiled out (python -O), None.is_valid() raises AttributeError *)
PullAbsentBackend ==
    /\ Resumable /\ enabled
    /\ pulled < MaxPages
    /\ TakePage(NewPage(pulled + 1, "none"))
    /\ \E type \in {"AssertionError", "AttributeError"} : Raise(type, "")
    /\ UNCHANGED <<enabled, out>>

(* faulty variant of PullInvalidBackend: `continue` in place of `yield page`,
   the page is dropped from the output *)
PullInvalidBackend_Dropping ==
    /\ Resumable /\ enabled
    /\ pulled < MaxPages
    /\ TakePage(NewPage(pulled + 1, "invalid"))
    /\ UNCHANGED <<enabled, pc, out, error>>

(* lines 64-67: is_valid() is false, the page is yielded as it is *)
PullInvalidBackend ==
    /\ Resumable /\ enabled
    /\ pulled < MaxPages
    /\ LET pg == NewPage(pulled + 1, "invalid")
       IN  /\ ~is_valid(pg)
              /\ TakePage(pg)
              /\ out' = Append(out, pg.id)
    /\ pc' = "yielded"
    /\ UNCHANGED <<enabled, error>>

(* lines 64-69: a page with a valid backend enters the else branch *)
PullValidBackend ==
    /\ Resumable /\ enabled
    /\ pulled < MaxPages
    /\ LET pg == NewPage(pulled + 1, "valid")
       IN  /\ is_valid(pg)
           /\ TakePage(pg)
    /\ pc' = "fetching"
    /\ UNCHANGED <<enabled, out, error>>

(* lines 70-72: self.get_ocr_rects(page) returns an ordered sequence of
   rects, whatever the collaborator decides; the accumulator starts empty *)
FetchRects ==
    /\ pc = "fetching"
    /\ \E rs \in RectSeqs : ocr_rects' = rs
    /\ fetches' = fetches + 1
    /\ all_ocr_cells' = <<>>
    /\ ri' = 0
    /\ pc' = "regions"
    /\ UNCHANGED <<enabled, pulled, page, cells0, calls, rasters, merges, out, error>>

(* line 64: page_batch is exhausted, the generator returns *)
BatchEnd ==
    /\ Resumable /\ enabled
    /\ pc' = "done"
    /\ UNCHANGED <<enabled, pulled, page, cells0, ocr_rects, ri, all_ocr_cells,
                   calls, fetches, rasters, merges, out, error>>

(* faulty variant of IsDegenerate: only the width is looked at *)
IsDegenerate_WidthOnly(ocr_rect) == ocr_rect.r - ocr_rect.l = 0

(* line 75: ocr_rect.area() == 0 *)
IsDegenerate(ocr_rect) == area(ocr_rect) = 0

(* lines 73-76: a rect of area 0 is skipped *)
SkipRegion ==
    /\ pc = "regions" /\ ri < Len(ocr_rects)
    /\ IsDegenerate(ocr_rects[ri + 1])
    /\ ri' = ri + 1
    /\ UNCHANGED <<enabled, pc, pulled, page, cells0, ocr_rects, all_ocr_cells,
                   calls, fetches, rasters, merges, out, error>>

(* the record kept of one transport call *)
Call(ocr_rect, outcome, result, cells) ==
    [page |-> page.id, index |-> ri + 1, rect |-> ocr_rect, outcome |-> outcome,
     result |-> result, cells |-> cells]

(* faulty variant of OnErrorReply: the error is swallowed and the loop goes
   on with the next rect *)
OnErrorReply_Skipping(ocr_rect, result) ==
    /\ result.has_error
    /\ calls' = Append(calls, Call(ocr_rect, "error", result, <<>>))
    /\ ri' = ri + 1
    /\ UNCHANGED <<pc, error, all_ocr_cells>>

(* faulty variant of OnReply: `all_ocr_cells = cells` in place of extend *)
OnReply_Overwriting(ocr_rect, result, reorder) ==
    LET cells == RegionCells(result, ocr_rect, reorder)
    IN  /\ ~result.has_error
        /\ calls' = Append(calls, Call(ocr_rect, "ok", result, cells))
        /\ all_ocr_cells' = cells
        /\ ri' = ri + 1
        /\ UNCHANGED <<pc, error>>

(* lines 54-55: the exchange itself fails (network, timeout, a body that is
   not JSON); the exception leaves the generator *)
OnTransportFailure(ocr_rect) ==
    /\ calls' = Append(calls, Call(ocr_rect, "failed", NoReply, <<>>))
    /\ Raise("TransportError", "")
    /\ UNCHANGED <<ri, all_ocr_cells>>

(* lines 83-84: the reply has an "error" key *)
OnErrorReply(ocr_rect, result) ==
    /\ result.has_error
    /\ calls' = Append(calls, Call(ocr_rect, "error", result, <<>>))
    /\ Raise("RuntimeError", result.message)
    /\ UNCHANGED <<ri, all_ocr_cells>>

(* lines 86-117: the reply's blocks become cells, the accumulator is extended *)
OnReply(ocr_rect, result, reorder) ==
    LET cells == RegionCells(result, ocr_rect, reorder)
    IN  /\ ~result.has_error
        /\ calls' = Append(calls, Call(ocr_rect, "ok", result, cells))
        /\ all_ocr_cells' = all_ocr_cells \o cells
        /\ ri' = ri + 1
        /\ UNCHANGED <<pc, error>>

(* lines 78-117: the rect is rasterised and sent; the exchange fails, or the
   reply carries an error, or its blocks become cells *)
RecogniseRegion ==
    /\ pc = "regions" /\ ri < Len(ocr_rects)
    /\ ~IsDegenerate(ocr_rects[ri + 1])
    /\ rasters' = rasters + 1
    /\ LET ocr_rect == ocr_rects[ri + 1]
       IN  \/ OnTransportFailure(ocr_rect)
           \/ \E result \in Replies : OnErrorReply(ocr_rect, result)
           \/ \E result \in Replies, reorder \in BOOLEAN :
                 OnReply(ocr_rect, result, reorder)
    /\ UNCHANGED <<enabled, pulled, page, cells0, ocr_rects, fetches, merges, out>>

(* faulty variant of MergeCells: the merge sits inside the loop over the
   rects and runs as soon as one rect has been consumed *)
MergeCells_InsideLoop ==
    /\ pc = "regions" /\ ri >= 1
    /\ page' = [page EXCEPT !.cells = post_process_cells(all_ocr_cells, page.cells)]
    /\ merges' = merges + 1
    /\ pc' = "merged"
    /\ UNCHANGED <<enabled, pulled, cells0, ocr_rects, ri, all_ocr_cells, calls,
                   fetches, rasters, out, error>>

(* line 120: page.cells = self.post_process_cells(all_ocr_cells, page.cells) *)
MergeCells ==
    /\ pc = "regions" /\ ri = Len(ocr_rects)
    /\ page' = [page EXCEPT !.cells = post_process_cells(all_ocr_cells, page.cells)]
    /\ merges' = merges + 1
    /\ pc' = "merged"
    /\ UNCHANGED <<enabled, pulled, cells0, ocr_rects, ri, all_ocr_cells, calls,
                   fetches, rasters, out, error>>

(* faulty variant of YieldPage: the yield is missing and the loop goes on to
   the next page *)
YieldPage_Missing ==
    /\ pc = "merged"
    /\ pc' = "yielded"
    /\ UNCHANGED <<enabled, pulled, page, cells0, ocr_rects, ri, all_ocr_cells,
                   calls, fetches, rasters, merges, out, error>>

(* lines 122-126: the debug drawing of lines 123-124 changes neither the page
   nor the locals; yield page *)
YieldPage ==
    /\ pc = "merged"
    /\ out' = Append(out, page.id)
    /\ pc' = "yielded"
    /\ UNCHANGED <<enabled, pulled, page, cells0, ocr_rects, ri, all_ocr_cells,
                   calls, fetches, rasters, merges, error>>

GenInit ==
    /\ enabled \in BOOLEAN
    /\ pc = "start"
    /\ pulled = 0
    /\ page = NoPage
    /\ cells0 = NoPage.cells
    /\ ocr_rects = <<>>
    /\ ri = 0
    /\ all_ocr_cells = <<>>
    /\ calls = <<>>
    /\ fetches = 0
    /\ rasters = 0
    /\ merges = 0
    /\ out = <<>>
    /\ error = NoError

----------------------------------------------------------------------------
(* The rate-limited session, lines 31 and 54.  Time is counted in ticks; a
   Limiter keeps the requests it admitted during the last Window ticks and
   admits another one only while it holds fewer than Quota of them.  The
   limiter only delays a call, which is why RecogniseRegion above takes the
   admitted call as one step. *)

Instances == {"m1", "m2"}

Limiters == {"limiterA", "limiterB"}

(* line 31: LimiterSession(limiter=self.options.limiter) *)
SessionLimiter(i) == limiterOf[i]

(* the limiter has budget for one more request *)
HasBudget(lim) == Len(bucket[lim]) < Quota

(* one tick later: every age grows, requests older than the window leave *)
Aged(ages) ==
    LET older == [k \in 1..Len(ages) |-> ages[k] + 1]
        InWindow(a) == a < Window
    IN  SelectSeq(older, InWindow)

(* line 82: the flow of instance i calls _recognise_image *)
Request(i) ==
    /\ ~waiting[i]
    /\ waiting' = [waiting EXCEPT ![i] = TRUE]
    /\ UNCHANGED <<limiterOf, bucket, sent>>

(* faulty variant of Post: the request is sent with a plain session, past
   the limiter *)
Post_Unthrottled(i) ==
    /\ waiting[i]
    /\ sent' = [sent EXCEPT ![i] = <<0>> \o @]
    /\ waiting' = [waiting EXCEPT ![i] = FALSE]
    /\ UNCHANGED <<limiterOf, bucket>>

(* line 54: self.limiter_session.post(...) returns once the session's limiter
   admits the request; until then the flow stays inside the call *)
Post(i) ==
    /\ waiting[i]
    /\ HasBudget(SessionLimiter(i))
    /\ bucket' = [bucket EXCEPT ![SessionLimiter(i)] = <<0>> \o @]
    /\ sent' = [sent EXCEPT ![i] = <<0>> \o @]
    /\ waiting' = [waiting EXCEPT ![i] = FALSE]
    /\ UNCHANGED limiterOf

(* time passes *)
Tick ==
    /\ bucket' = [lim \in Limiters |-> Aged(bucket[lim])]
    /\ sent' = [i \in Instances |-> Aged(sent[i])]
    /\ UNCHANGED <<limiterOf, waiting>>

LimInit ==
    /\ limiterOf \in [Instances -> Limiters]
    /\ bucket = [lim \in Limiters |-> <<>>]
    /\ waiting = [i \in Instances |-> FALSE]
    /\ sent = [i \in Instances |-> <<>>]

----------------------------------------------------------------------------
(* Specifications *)

Init ==
    /\ GenInit
    /\ limiterOf = [i \in Instances |-> "limiterA"]
    /\ bucket = [lim \in Limiters |-> <<>>]
    /\ waiting = [i \in Instances |-> FALSE]
    /\ sent = [i \in Instances |-> <<>>]

Next ==
    \/ PassThrough /\ UNCHANGED limVars
    \/ PassThroughEnd /\ UNCHANGED limVars
    \/ PullAbsentBackend /\ UNCHANGED limVars
    \/ PullInvalidBackend /\ UNCHANGED limVars
    \/ PullValidBackend /\ UNCHANGED limVars
    \/ FetchRects /\ UNCHANGED limVars
    \/ BatchEnd /\ UNCHANGED limVars
    \/ SkipRegion /\ UNCHANGED limVars
    \/ RecogniseRegion /\ UNCHANGED limVars
    \/ MergeCells /\ UNCHANGED limVars
    \/ YieldPage /\ UNCHANGED limVars

Spec == Init /\ [][Next]_vars

InitL ==
    /\ GenInit /\ enabled
    /\ LimInit

NextL ==
    \/ \E i \in Instances : Request(i) /\ UNCHANGED genVars
    \/ \E i \in Instances : Post(i) /\ UNCHANGED genVars
    \/ Tick /\ UNCHANGED genVars

SpecL == InitL /\ [][NextL]_vars

----------------------------------------------------------------------------
(* Properties of the generator *)

(* the ids 1..n in order: the pages of the batch in the order they were pulled *)
InOrder(n) == [k \in 1..n |-> k]

(* nothing was done to the current page: no rect fetched, nothing rasterised,
   nothing sent, nothing merged, its cells as they were *)
Untouched ==
    /\ page.cells = cells0
    /\ calls = <<>>
    /\ fetches = 0
    /\ rasters = 0
    /\ merges = 0

(* the current page has been yielded, and it is the last page yielded *)
Emitted == Len(out) = pulled /\ pulled > 0 /\ out[Len(out)] = page.id

(* the rects among the first n of ocr_rects that have a non-zero area *)
NonZero(n) == {k \in 1..n : (ocr_rects[k].r - ocr_rects[k].l) # 0
                            /\ (ocr_rects[k].b - ocr_rects[k].t) # 0}

(* C1: a disabled model yields exactly the pages it pulls, in order and as the
   same objects, whatever their backends; no page's cells change and nothing
   is fetched, rasterised, sent or merged; no error is raised. *)
C1_DisabledPassThrough ==
    ~enabled =>
        /\ pc \in {"start", "yielded", "done"}
        /\ out = InOrder(pulled)
        /\ pulled > 0 => Emitted
        /\ Untouched
        /\ error = NoError

C1_Witness ==
    /\ ~enabled /\ pc = "done"
    /\ Len(out) = 2
    /\ page.backend = "none"

(* C2: while an enabled model processes a page with a valid backend and no
   exchange has failed, the transport calls made for the page are exactly the
   non-zero-area rects consumed so far, one call each, in rect order, and one
   rasterisation per call; a zero-area rect causes neither. *)
C2_CallsAreNonZeroRects ==
    (enabled /\ is_valid(page) /\ pc \in {"regions", "merged", "yielded", "done"}) =>
        /\ Len(calls) = Cardinality(NonZero(ri))
        /\ rasters = Len(calls)
        /\ \A j \in 1..Len(calls) : calls[j].index \in NonZero(ri)
        /\ \A j \in 1..Len(calls), k \in 1..Len(calls) :
              j < k => calls[j].index < calls[k].index
        /\ pc # "regions" => ri = Len(ocr_rects)

C2_Witness ==
    /\ enabled /\ is_valid(page) /\ pc = "yielded"
    /\ Len(ocr_rects) = 2
    /\ Cardinality(NonZero(2)) = 1
    /\ Len(calls) = 1

(* C3: a reply with an error field ends the processing of the page with a
   RuntimeError carrying the reply's error.message; nothing is merged, the
   page's cells are what they were before (also after earlier regions were
   recognised), and the page is not yielded. *)
C3_ErrorReplyIsFatal ==
    \A j \in 1..Len(calls) :
        calls[j].outcome = "error" =>
            /\ j = Len(calls)
            /\ pc = "raised"
            /\ error = [type |-> "RuntimeError", message |-> calls[j].result.message]
            /\ merges = 0
            /\ page.cells = cells0
            /\ Len(out) = pulled - 1
            /\ \A k \in 1..Len(out) : out[k] # page.id

C3_Witness ==
    /\ Len(calls) = 2
    /\ calls[1].outcome = "ok" /\ Len(calls[1].cells) > 0
    /\ calls[2].outcome = "error"
    /\ error.message = "bad image"

(* what C4 says of a page that is passed through *)
PassedThrough ==
    /\ pc \in {"yielded", "done"}
    /\ Emitted
    /\ Untouched
    /\ error = NoError

(* C4 as stated: a page without a usable backend (absent, or is_valid()
   false) is passed through untouched whether the model is enabled or not,
   and no error is raised for it. *)
C4_AsStated ==
    (pulled > 0 /\ page.backend # "valid") => PassedThrough

(* C4, amended: a page whose backend is present and not valid is passed
   through untouched whether the model is enabled or not, and so is a page
   without a backend when the model is disabled; an enabled model raises on a
   page without a backend (the assert of line 65, or AttributeError where
   asserts are compiled out), before anything is fetched, sent or merged,
   and does not yield that page. *)
C4_InvalidBackendPassThrough ==
    /\ (pulled > 0 /\ (page.backend = "invalid" \/ (page.backend = "none" /\ ~enabled)))
          => PassedThrough
    /\ (pulled > 0 /\ page.backend = "none" /\ enabled) =>
          /\ pc = "raised"
          /\ error.type \in {"AssertionError", "AttributeError"}
          /\ Untouched
          /\ Len(out) = pulled - 1

C4_Witness ==
    /\ enabled /\ pc = "yielded"
    /\ page.backend = "invalid"
    /\ Len(out) = 2

(* C5: as long as nothing fatal happened, the pages yielded are the pages
   pulled, in order, each once; the generator holds at most one page that it
   has not yet yielded, so page k+1 is pulled only after page k was yielded,
   and every transport call on record is for the page pulled last. *)
C5_SameOrderOneAtATime ==
    /\ out = InOrder(Len(out))
    /\ pulled <= Len(out) + 1
    /\ \A j \in 1..Len(calls) : calls[j].page = pulled
    /\ error = NoError =>
          /\ pc \in {"start", "yielded", "done"} => Len(out) = pulled
          /\ pc \in {"fetching", "regions", "merged"} => Len(out) = pulled - 1

C5_Witness ==
    /\ enabled /\ pc = "done" /\ error = NoError
    /\ Len(out) = 2
    /\ page.backend = "valid"
    /\ Len(calls) = 2

----------------------------------------------------------------------------
(* Properties of the mapping *)

(* q / scale + o, for a fraction q and an integer offset o *)
ToPage(q, o) == Frac(q.n + o * scale * q.d, q.d * scale)

Whole(i) == Frac(i, 1)

(* the transport calls on record that were answered without an error *)
Answered == {j \in 1..Len(calls) : calls[j].outcome = "ok"}

(* the blocks of the reply of call j *)
BlocksOf(j) == IF calls[j].result.has_blocks THEN calls[j].result.blocks ELSE <<>>

(* the bounding box is the box with corners a and c, as from_tuple stores it:
   as given, or - when a build of from_tuple reorders and a corner pair is
   inverted - with that pair exchanged *)
IsBoxOf(bbox, ax, ay, cx, cy) ==
    /\ \/ FracEq(bbox.l, ax) /\ FracEq(bbox.r, cx)
       \/ ~FracLe(ax, cx) /\ FracEq(bbox.l, cx) /\ FracEq(bbox.r, ax)
    /\ \/ FracEq(bbox.t, ay) /\ FracEq(bbox.b, cy)
       \/ ~FracLe(ay, cy) /\ FracEq(bbox.t, cy) /\ FracEq(bbox.b, ay)

(* C6 as stated: the bounding box of every cell is
   (x0/S + l, y0/S + t, x2/S + l, y2/S + t) for the block's first vertex
   (x0, y0) and third vertex (x2, y2) as the reply gives them. *)
C6_AsStated ==
    \A j \in Answered :
        \A i \in 1..Len(calls[j].cells) :
            LET v == BlocksOf(j)[i].vertices
                rc == calls[j].rect
                bbox == calls[j].cells[i].bbox
            IN  /\ FracEq(bbox.l, ToPage(v[1].x, rc.l))
                /\ FracEq(bbox.t, ToPage(v[1].y, rc.t))
                /\ FracEq(bbox.r, ToPage(v[3].x, rc.l))
                /\ FracEq(bbox.b, ToPage(v[3].y, rc.t))

(* C6, amended: each of the four scalars is first truncated toward zero by
   int() and then transformed independently: the box is built from
   (int(x0)/S + l, int(y0)/S + t, int(x2)/S + l, int(y2)/S + t).  When
   int(x0) <= int(x2) and int(y0) <= int(y2) these four values are the box's
   l, t, r, b; an inverted pair is stored as given or exchanged, as
   BoundingBox.from_tuple decides.  With S = 3, l = 100, t = 50 the vertex
   (300, 150) becomes the page point (200, 100). *)
C6_TruncatedThenScaled ==
    \A j \in Answered :
        \A i \in 1..Len(calls[j].cells) :
            LET v == BlocksOf(j)[i].vertices
                rc == calls[j].rect
                bbox == calls[j].cells[i].bbox
                ax == ToPage(Whole(PyInt(v[1].x)), rc.l)
                ay == ToPage(Whole(PyInt(v[1].y)), rc.t)
                cx == ToPage(Whole(PyInt(v[3].x)), rc.l)
                cy == ToPage(Whole(PyInt(v[3].y)), rc.t)
            IN  /\ IsBoxOf(bbox, ax, ay, cx, cy)
                /\ (PyInt(v[1].x) <= PyInt(v[3].x) /\ PyInt(v[1].y) <= PyInt(v[3].y)) =>
                      /\ FracEq(bbox.l, ax) /\ FracEq(bbox.t, ay)
                      /\ FracEq(bbox.r, cx) /\ FracEq(bbox.b, cy)
                /\ (scale = 3 /\ rc.l = 100 /\ rc.t = 50
                    /\ v[1].x = Whole(0) /\ v[1].y = Whole(0)
                    /\ v[3].x = Whole(300) /\ v[3].y = Whole(150)) =>
                      /\ FracEq(bbox.r, Whole(200)) /\ FracEq(bbox.b, Whole(100))

C6_Witness ==
    \E j \in Answered :
        /\ calls[j].rect.l = 100 /\ calls[j].rect.t = 50
        /\ Len(calls[j].cells) = 2
        /\ BlocksOf(j)[1].vertices[1].x = Frac(661, 2)
        /\ calls[j].cells[1].bbox.l = Frac(630, 3)
        /\ calls[j].cells[1].bbox.r = Frac(300, 3)
        /\ BlocksOf(j)[2].vertices[3] = Pt(Frac(300, 1), Frac(150, 1))
        /\ calls[j].cells[2].bbox.r = Frac(600, 3)
        /\ calls[j].cells[2].bbox.b = Frac(300, 3)

(* C7: a region answered without an error yields as many cells as its reply
   has blocks (none when the reply has no blocks), cell number i made from
   block number i: its id is i - 1 and its text the block's lines joined by
   newlines; the accumulator is the concatenation of the regions' cells in
   the order of the rects. *)
RECURSIVE CellsOfCalls(_)
CellsOfCalls(n) ==
    IF n = 0 THEN <<>> ELSE CellsOfCalls(n - 1) \o calls[n].cells

C7_OneCellPerBlock ==
    /\ \A j \in Answered :
          LET cells == calls[j].cells
              blocks == calls[j].result.blocks
          IN  /\ Len(cells) = IF calls[j].result.has_blocks THEN Len(blocks) ELSE 0
              /\ \A i \in 1..Len(cells) :
                    LET lines == blocks[i].lines
                        text == cells[i].text
                    IN  /\ cells[i].id = i - 1
                        /\ cells[i].confidence = 1
                        /\ Len(text) = IF Len(lines) = 0 THEN 0 ELSE 2 * Len(lines) - 1
                        /\ \A k \in 1..Len(lines) : text[2 * k - 1] = lines[k]
                        /\ \A k \in 1..(Len(lines) - 1) : text[2 * k] = "\n"
    /\ (enabled /\ is_valid(page) /\ pulled > 0) =>
          /\ all_ocr_cells = CellsOfCalls(Len(calls))
          /\ \A j \in 1..Len(calls), k \in 1..Len(calls) :
                j < k => calls[j].index < calls[k].index
          /\ \A j \in 1..Len(calls) : calls[j].rect = ocr_rects[calls[j].index]

C7_Witness ==
    /\ pc = "merged"
    /\ Len(ocr_rects) = 2 /\ Len(calls) = 2
    /\ Len(calls[1].cells) = 2 /\ Len(calls[2].cells) = 1
    /\ calls[1].cells[1].text = <<"Hello", "\n", "World">>
    /\ calls[1].cells[2].text = <<"a">>
    /\ calls[2].cells[1].text = <<"Hello", "\n", "World">>
    /\ Len(all_ocr_cells) = 3
    /\ all_ocr_cells[3].id = 0

(* C8: for a page with a valid backend, the merge is invoked exactly once,
   when every rect of the page has been consumed and before the page is
   yielded, on the accumulated cells and the page's previous cells, and
   page.cells becomes its result; never while regions remain, and never for
   a page whose processing raised.  Regions are consumed one after another:
   the calls on record are for rects already consumed. *)
C8_MergeOnceAfterLastRegion ==
    (enabled /\ is_valid(page) /\ pulled > 0) =>
        /\ pc = "fetching" => Untouched /\ Len(out) = pulled - 1
        /\ pc # "fetching" => fetches = 1
        /\ pc \in {"regions", "raised"} =>
              /\ merges = 0 /\ page.cells = cells0 /\ Len(out) = pulled - 1
        /\ pc \in {"merged", "yielded", "done"} =>
              /\ merges = 1
              /\ ri = Len(ocr_rects)
              /\ page.cells = post_process_cells(all_ocr_cells, cells0)
              /\ \A j \in 1..Len(calls) : calls[j].outcome = "ok"
        /\ pc = "merged" => Len(out) = pulled - 1
        /\ pc \in {"yielded", "done"} => Emitted
        /\ \A j \in 1..Len(calls) :
              calls[j].index <= IF pc = "raised" THEN ri + 1 ELSE ri

C8_Witness ==
    /\ enabled /\ is_valid(page) /\ pc = "yielded"
    /\ Len(calls) = 2
    /\ merges = 1
    /\ Len(page.cells.merged) = 1 /\ Len(page.cells.merged[1]) = 3

(* C9 as stated: every cell's bounding box lies within the rect it came
   from, for every reply. *)
C9_AsStated ==
    \A j \in Answered :
        \A i \in 1..Len(calls[j].cells) :
            LET rc == calls[j].rect
                bbox == calls[j].cells[i].bbox
            IN  /\ FracLe(Whole(rc.l), bbox.l) /\ FracLe(bbox.l, bbox.r)
                /\ FracLe(bbox.r, Whole(rc.r))
                /\ FracLe(Whole(rc.t), bbox.t) /\ FracLe(bbox.t, bbox.b)
                /\ FracLe(bbox.b, Whole(rc.b))

(* the block's first and third vertex, truncated, are the top-left and the
   bottom-right corner of a box inside the image rasterised from the rect *)
InsideImage(block, rc) ==
    LET v == block.vertices
    IN  /\ 0 <= PyInt(v[1].x) /\ PyInt(v[1].x) <= PyInt(v[3].x)
        /\ PyInt(v[3].x) <= scale * (rc.r - rc.l)
        /\ 0 <= PyInt(v[1].y) /\ PyInt(v[1].y) <= PyInt(v[3].y)
        /\ PyInt(v[3].y) <= scale * (rc.b - rc.t)

(* C9, amended: the code neither clamps nor validates; the cell's bounding
   box lies within its rect whenever the block's first and third vertex,
   truncated by int(), are the top-left and bottom-right corner of a box
   inside the rasterised image, 0 <= int(x0) <= int(x2) <= S*(r - l) and
   0 <= int(y0) <= int(y2) <= S*(b - t). *)
C9_WithinRectWhenInsideImage ==
    \A j \in Answered :
        \A i \in 1..Len(calls[j].cells) :
            LET rc == calls[j].rect
                bbox == calls[j].cells[i].bbox
            IN  InsideImage(BlocksOf(j)[i], rc) =>
                    /\ FracLe(Whole(rc.l), bbox.l) /\ FracLe(bbox.l, bbox.r)
                    /\ FracLe(bbox.r, Whole(rc.r))
                    /\ FracLe(Whole(rc.t), bbox.t) /\ FracLe(bbox.t, bbox.b)
                    /\ FracLe(bbox.b, Whole(rc.b))

C9_Witness ==
    \E j \in Answered :
        /\ Len(calls[j].cells) = 2
        /\ InsideImage(BlocksOf(j)[1], calls[j].rect)
        /\ ~InsideImage(BlocksOf(j)[2], calls[j].rect)
        /\ calls[j].cells[1].bbox.l = Frac(300, 3)
        /\ calls[j].cells[1].bbox.r = Frac(600, 3)
        /\ calls[j].cells[1].bbox.b = Frac(300, 3)

----------------------------------------------------------------------------
(* Properties of the rate-limited session *)

RECURSIVE SentBy(_)
(* how many requests of the instances in `set` reached the service during the
   last Window ticks *)
SentBy(set) ==
    IF set = {} THEN 0
    ELSE LET i == CHOOSE x \in set : TRUE
         IN  Len(sent[i]) + SentBy(set \ {i})

(* the instances whose session wraps limiter lim *)
UsersOf(lim) == {i \in Instances : SessionLimiter(i) = lim}

(* C10 as stated: the budget is the instance's own; within a window an
   instance sends at most Quota requests, and whether it may send depends on
   its own requests alone, not on those of other instances. *)
C10_AsStated ==
    \A i \in Instances :
        /\ Len(sent[i]) <= Quota
        /\ Len(sent[i]) < Quota => HasBudget(SessionLimiter(i))

(* C10, amended: every recognition request goes through the limiter of the
   instance's options: it is sent only while that Limiter has budget, the
   flow stays in the call until then (the request is neither dropped nor
   failed), and each request sent takes one unit, so the requests sent
   through one Limiter during any window never exceed the quota.  The budget
   is that of the Limiter object: shared by all calls of one instance, and
   also by every other instance constructed with the same Limiter. *)
C10_SharedPerLimiter ==
    /\ [](\A lim \in Limiters :
            /\ SentBy(UsersOf(lim)) <= Quota
            /\ SentBy(UsersOf(lim)) = Len(bucket[lim]))
    /\ [][\A i \in Instances :
            /\ (waiting[i] /\ ~waiting'[i]) =>
                  /\ HasBudget(SessionLimiter(i))
                  /\ sent'[i] = <<0>> \o sent[i]
                  /\ Len(bucket'[SessionLimiter(i)]) = Len(bucket[SessionLimiter(i)]) + 1
            /\ (waiting[i] /\ ~HasBudget(SessionLimiter(i))) =>
                  (waiting'[i] /\ Len(sent'[i]) <= Len(sent[i]))]_vars

C10_Witness ==
    /\ SessionLimiter("m1") = SessionLimiter("m2")
    /\ waiting["m1"] /\ sent["m1"] = <<>>
    /\ Len(sent["m2"]) = Quota
    /\ ~HasBudget(SessionLimiter("m1"))

====
